---- MODULE Spec2Model ----
(***************************************************************************)
(* Pinned BPF map handle (bpf/maps.go): PinnedMap, its existence          *)
(* reconciler EnsureExists, the repin resolver RepinMap, Close and the    *)
(* entry operations, run against a pin filesystem and a kernel map        *)
(* registry.  Strings are sequences of one-character strings.             *)
(***************************************************************************)
EXTENDS Integers, Sequences, FiniteSets, TLC

\* ------------------------------------------------------------------ bounds
\* Largest number of live maps in the kernel registry.
MaxMaps == 2
\* Largest descriptor number the process hands out (0..2 are the std streams).
MaxFd == 4
\* Keys and values of entry operations are single bytes 0..MaxByte.
MaxByte == 0
MaxVersion == 11

\* --------------------------------------------------------- program constants
\* unix.BPF_OBJ_NAME_LEN, the kernel's object-name limit (with the NUL).
BPF_OBJ_NAME_LEN == 16

\* ------------------------------------------------------------------ strings
Digits == <<"0", "1", "2", "3", "4", "5", "6", "7", "8", "9">>

\* fmt's %d of an int.
RECURSIVE Itoa(_)
Itoa(n) ==
  IF n < 0 THEN <<"-">> \o Itoa(-n)
  ELSE IF n < 10 THEN <<Digits[n + 1]>>
  ELSE Itoa(n \div 10) \o <<Digits[(n % 10) + 1]>>

\* strings.Contains(s, sub)
Contains(s, sub) ==
  \E i \in 0..(Len(s) - Len(sub)) : SubSeq(s, i + 1, i + Len(sub)) = sub

Rep(c, n) == [i \in 1..n |-> c]

NoStr == <<>>

\* Base names: a short one and two at the edge of the kernel's limit.
NameCali == <<"c", "a", "l", "i">>
NameLong == Rep("a", 14)
NameLonger == Rep("a", 15)
FileM == <<"/", "m">>
TypePercpu == <<"p", "e", "r", "c", "p", "u">>
TypeHash == <<"h", "a", "s", "h">>
TypeLruPercpuHash == <<"l", "r", "u", "_">> \o TypePercpu \o <<"_">> \o TypeHash

MapParams(n, f, t, v) == [Name |-> n, Filename |-> f, Type |-> t, Version |-> v]

\* The MapParameters handles are built from: plain and per-CPU types,
\* versions with and without a suffix, and names whose versioned form has
\* 4, 5, 15 and 16 characters.
Identities ==
  {MapParams(NameCali, FileM, TypeHash, 1),
   MapParams(NameCali, FileM, TypeLruPercpuHash, 2),
   MapParams(NameLong, FileM, TypeHash, 2),
   MapParams(NameLonger, FileM, TypeHash, 2)}

\* Lines 59-65 with the suffix starting at version 1.
versionedStrFromOne(ver, str) ==
  IF ver < 1 THEN str ELSE str \o Itoa(ver)

versionedStr(ver, str) ==
  IF ver <= 1 THEN str ELSE str \o Itoa(ver)

versionedName(mp) == versionedStr(mp.Version, mp.Name)

versionedFilename(mp) == versionedStr(mp.Version, mp.Filename)

\* Identities for the naming rules alone: every version from a negative
\* one to a two-digit one, names that end in a digit, and a name that
\* fits the kernel's limit with a one-digit suffix only.
NameA1 == <<"a", "1">>
FileM1 == <<"/", "m", "1">>
Versions == (0 - 1)..MaxVersion
VersionedIdentities ==
  {MapParams(n, f, TypeHash, v) : n \in {NameCali, NameA1, NameLong}, f \in {FileM, FileM1},
                                   v \in Versions}

\* What bpftool prints when it cannot create a map, and the text of the
\* exit error of a command that ran and failed.
CreateDiag == <<"E", "r", "r", "o", "r">>
ErrCreateText == <<"e", "x", "i", "t", " ", "s", "t", "a", "t", "u", "s", " ", "1">>

\* Every pin path a handle of this model can use.
PinPaths == {versionedFilename(mp) : mp \in Identities}

\* Names a live kernel map can carry.
RegNames == {NameCali, NameCali \o <<"2">>}

Bytes == 0..MaxByte
\* Descriptors an open can return: 0..2 are the standard streams.
FdRange == 3..MaxFd

\* ------------------------------------------------------------------- errors
\* Error values, by origin.  "nil" is the nil error; "panic" and
\* "panic_nil" are a logrus.Panic and a nil-pointer dereference.
ErrNil == "nil"
ErrNotExist == "os.ErrNotExist"
ErrStatENOENT == "stat: no such file or directory"
ErrStatEACCES == "stat: permission denied"
ErrList == "bpftool map list failed"
ErrBadJSON == "bpftool returned bad JSON"
ErrPin == "bpftool failed to repin map"
ErrCreate == "bpftool map create failed"
ErrOpen == "bpf obj get failed"
ErrClose == "close failed"
ErrSyscall == "bpf syscall failed"
ErrDump == "failed to dump in map"
ErrDelete == "bpftool map delete failed"
ErrParseJSON == "cannot parse json output"
ErrParseKey == "failed parsing entry key"
ErrParseVal == "failed parsing entry val"
ErrPanic == "panic"
ErrNilDeref == "panic: nil pointer dereference"

VARIABLES
  constructed,  \* "no", "yes", or "panic" (NewPinnedMap panicked)
  context,      \* b.context: "nil", or its RepinningEnabled: "on" / "off"
  params,       \* b.MapParameters
  fdLoaded,     \* b.fdLoaded
  fd,           \* b.fd
  perCPU,       \* b.perCPU
  pins,         \* pin filesystem: path -> id of the pinned map, 0 = no pin
  registry,     \* kernel map registry in listing order: <<[id, name]>>
  held,         \* descriptor the handle got from open-by-pin and has not closed, 0 = none
  lastOp,       \* the operation that ran last
  lastRet,      \* what it returned (an error value)
  calls,        \* the external and kernel calls it issued, in order
  pre,          \* the handle and pin state it started from
  lastVal,      \* the value it returned beside the error, NoVal if none
  visited,      \* the visitor invocations it made (Iter), in order
  race          \* two processes inside EnsureExists, step by step

vars == <<constructed, context, params, fdLoaded, fd, perCPU, pins, registry,
          held, lastOp, lastRet, calls, pre, lastVal, visited, race>>

\* What no operation on a built handle changes; the two racing processes
\* take no step while the single handle is exercised.
handleVars == <<constructed, context, params, perCPU, race>>

\* The two processes, and a process that has not called EnsureExists:
\* its handle is fresh (lines 91-98), `ret` is what its call returned,
\* `id` the registry id it matched, `obj` the map its descriptor is
\* bound to, `creates` the creation calls it issued and `createErr` the
\* result of the last of them.
Procs == {1, 2}

ProcIdle == [pc |-> "idle", ret |-> ErrNil, id |-> 0, fdLoaded |-> FALSE, fd |-> 0,
             obj |-> 0, creates |-> 0, createErr |-> "none"]

\* `order` is the order in which the calls began, `overlap` whether one
\* began while the other was running.
RaceIdle == [h |-> [p \in Procs |-> ProcIdle], order |-> <<>>, overlap |-> FALSE]

NoParams == [Name |-> NoStr, Filename |-> NoStr, Type |-> NoStr, Version |-> 0]

\* One call record: every field present, unused ones at their defaults.
\* `out` is the output captured from an external tool that failed.
Call(op, path, name, id, f, key, err) ==
  [op |-> op, path |-> path, name |-> name, id |-> id, fd |-> f, key |-> key, err |-> err,
   out |-> NoStr]

\* A returned value, tagged with what it is.
Val(kind, v) == [kind |-> kind, val |-> v]

NoVal == Val("none", 0)

\* What the operation that ran last left behind, for the one that follows:
\* "unopened pin" after an EnsureExists that made the pin (created or
\* repinned it) and failed to open it, "closed" after a Close of an open
\* handle, "other" otherwise.
After ==
  IF /\ lastOp = "EnsureExists"
     /\ lastRet # ErrNil
     /\ \E i \in 1..Len(calls) : calls[i].op \in {"create", "pin"} /\ calls[i].err = ErrNil
  THEN "unopened pin"
  ELSE IF lastOp = "Close" /\ pre.fdLoaded THEN "closed"
  ELSE "other"

Snapshot == [fdLoaded |-> fdLoaded, fd |-> fd, held |-> held, pins |-> pins,
             nmaps |-> Len(registry), after |-> After]

\* Registries the kernel can be in at start: ids are handed out in order.
RECURSIVE SeqsUpTo(_, _)
SeqsUpTo(S, n) ==
  IF n = 0 THEN {<<>>}
  ELSE LET shorter == SeqsUpTo(S, n - 1)
       IN shorter \cup {Append(s, x) : s \in {t \in shorter : Len(t) = n - 1}, x \in S}

InitRegistries ==
  {[i \in 1..Len(ns) |-> [id |-> i, name |-> ns[i]]] : ns \in SeqsUpTo(RegNames, MaxMaps)}

\* Before construction: no handle yet; the kernel holds some maps and at
\* most one pin, on the newest of them.
Init ==
  /\ constructed = "no"
  /\ context \in {"nil", "on", "off"}
  /\ params = NoParams
  /\ fdLoaded = FALSE
  /\ fd = 0
  /\ perCPU = FALSE
  /\ registry \in InitRegistries
  /\ pins \in [PinPaths -> {0} \cup {registry[i].id : i \in {Len(registry)} \ {0}}]
  /\ \A p, q \in PinPaths : pins[p] # 0 /\ pins[q] # 0 => p = q
  /\ held = 0
  /\ lastOp = "none"
  /\ lastRet = ErrNil
  /\ calls = <<>>
  /\ pre = [fdLoaded |-> FALSE, fd |-> 0, held |-> 0, pins |-> pins,
            nmaps |-> Len(registry), after |-> "other"]
  /\ lastVal = NoVal
  /\ visited = <<>>
  /\ race = RaceIdle

\* --------------------------------------------------------------- NewPinnedMap
\* Line 80 measuring params.Name in place of params.versionedName().
NameTooLongRaw(mp) == Len(mp.Name) >= BPF_OBJ_NAME_LEN

NameTooLong(mp) == Len(versionedName(mp)) >= BPF_OBJ_NAME_LEN

\* Line 86 with strings.HasPrefix for strings.Contains.
IsPerCPUPrefix(type) ==
  Len(type) >= Len(TypePercpu) /\ SubSeq(type, 1, Len(TypePercpu)) = TypePercpu

\* Line 86: strings.Contains(params.Type, "percpu")
IsPerCPU(type) == Contains(type, TypePercpu)

NewPinnedMapOf(ids) ==
  /\ constructed = "no"
  /\ \E mp \in ids :
       /\ IF NameTooLong(mp)
          THEN /\ constructed' = "panic"
               /\ lastRet' = ErrPanic
               /\ UNCHANGED <<params, perCPU>>
          ELSE /\ constructed' = "yes"
               /\ params' = mp
               /\ perCPU' = IsPerCPU(mp.Type)
               /\ lastRet' = ErrNil
       /\ lastVal' = Val("params", mp)
  /\ lastOp' = "NewPinnedMap"
  /\ calls' = <<>>
  /\ pre' = Snapshot
  /\ visited' = <<>>
  /\ UNCHANGED <<context, fdLoaded, fd, pins, registry, held, race>>

\* -------------------------------------------------- external interfaces
\* Outcomes the environment picks for the external calls of one run of
\* EnsureExists.  A run issues pin-by-id or create, never both, so `make`
\* is the outcome of whichever it issues; the outcome of a call that an
\* earlier failure keeps from being issued is fixed.
AllOutcomes ==
  [mount : BOOLEAN, mkdir : BOOLEAN, stat : {"fs", "EACCES"},
   list : {"ok", "fail", "badjson"}, make : BOOLEAN,
   open : BOOLEAN, newfd : FdRange]

Outcomes ==
  {o \in AllOutcomes :
     /\ ~o.mount => o.mkdir
     /\ (~o.mount \/ ~o.mkdir) => o.stat = "fs"
     /\ (~o.mount \/ ~o.mkdir \/ o.stat = "EACCES") => o.list = "ok"
     /\ (~o.mount \/ ~o.mkdir \/ o.stat = "EACCES" \/ o.list # "ok") => o.make /\ o.open
     /\ ~o.open => o.newfd = 3}

\* MaybeMountBPFfs()
MaybeMountBPFfs(o) == IF o.mount THEN ErrNil ELSE "mount failed"

\* os.MkdirAll of the pin directory
MkdirAll(o) == IF o.mkdir THEN ErrNil ELSE "mkdir failed"

\* os.IsNotExist(err): true of os.ErrNotExist itself and of a PathError
\* carrying ENOENT; it does not look inside a pkg/errors wrapper.
IsNotExist(err) == err \in {ErrNotExist, ErrStatENOENT}

\* os.Stat that never sees the pin: not found unless it fails otherwise.
StatNeverFinds(path, o) ==
  IF o.stat = "EACCES" THEN ErrStatEACCES ELSE ErrStatENOENT

\* os.Stat(path): nil when something is pinned there.
Stat(path, o) ==
  IF o.stat = "EACCES" THEN ErrStatEACCES
  ELSE IF pins[path] # 0 THEN ErrNil
  ELSE ErrStatENOENT

\* GetMapFDByPin(path) against the pin filesystem `fs`: a new descriptor
\* for the map pinned at path, or the zero descriptor and an error.
GetMapFDByPin(path, fs, o) ==
  IF o.open /\ fs[path] # 0 /\ o.newfd # held
  THEN [fd |-> o.newfd, err |-> ErrNil,
        call |-> Call("open", path, NoStr, fs[path], o.newfd, 0, ErrNil)]
  ELSE [fd |-> 0, err |-> ErrOpen,
        call |-> Call("open", path, NoStr, fs[path], 0, 0, ErrOpen)]

\* The range loop of RepinMap taking the last match.
LastMatch(maps, name) ==
  LET hits == {i \in 1..Len(maps) : maps[i].name = name}
  IN IF hits = {} THEN 0 ELSE CHOOSE i \in hits : \A j \in hits : j <= i

\* Lines 321-322, the range loop of RepinMap: index of the first entry
\* named name, 0 if there is none.
FirstMatch(maps, name) ==
  LET hits == {i \in 1..Len(maps) : maps[i].name = name}
  IN IF hits = {} THEN 0 ELSE CHOOSE i \in hits : \A j \in hits : i <= j

\* bpftool map pin id <id> <filename>
PinById(id, filename, o) ==
  LET ok == o.make /\ pins[filename] = 0
  IN [err |-> IF ok THEN ErrNil ELSE ErrPin,
      call |-> Call("pin", filename, NoStr, id, 0, 0, IF ok THEN ErrNil ELSE ErrPin),
      pins |-> IF ok THEN [pins EXCEPT ![filename] = id] ELSE pins]

\* RepinMap(name, filename), lines 307-330: [err, calls, pins].
RepinMap(name, filename, o) ==
  LET listErr == IF o.list = "fail" THEN ErrList
                 ELSE IF o.list = "badjson" THEN ErrBadJSON ELSE ErrNil
      cList == Call("list", NoStr, name, 0, 0, 0, listErr)
      i == FirstMatch(registry, name)
  IN IF listErr # ErrNil
     THEN [err |-> listErr, calls |-> <<cList>>, pins |-> pins]
     ELSE IF i # 0
     THEN LET pn == PinById(registry[i].id, filename, o)
          IN [err |-> pn.err, calls |-> <<cList, pn.call>>, pins |-> pn.pins]
     ELSE [err |-> ErrNotExist, calls |-> <<cList>>, pins |-> pins]

\* bpftool map create <path> ... name <name>: a new map, pinned at path.
CreateMap(path, name, o) ==
  LET ok == o.make /\ Len(registry) < MaxMaps /\ pins[path] = 0
      id == Len(registry) + 1
  IN [err |-> IF ok THEN ErrNil ELSE ErrCreate,
      call |-> [Call("create", path, name, IF ok THEN id ELSE 0, 0, 0,
                     IF ok THEN ErrNil ELSE ErrCreate)
                  EXCEPT !.out = IF ok THEN NoStr ELSE CreateDiag],
      pins |-> IF ok THEN [pins EXCEPT ![path] = id] ELSE pins,
      registry |-> IF ok THEN Append(registry, [id |-> id, name |-> name]) ELSE registry]

\* --------------------------------------------------------------- EnsureExists
\* What one run of a handler leaves: its return, its calls, the handle
\* fields and the environment.
Left(ret, cs, loaded, f, h, fs, reg) ==
  [ret |-> ret, calls |-> cs, fdLoaded |-> loaded, fd |-> f, held |-> h,
   pins |-> fs, registry |-> reg]

\* The guard of lines 237-239 never taken.
AlreadyLoadedNever == FALSE

\* Lines 237-239: the handle is open already.
AlreadyLoaded == fdLoaded

\* Lines 270-276 with fdLoaded set whatever the open returned.
OpenAndLoadAlways(path, cs, fs, reg, o) ==
  LET r == GetMapFDByPin(path, fs, o)
  IN Left(r.err, Append(cs, r.call), TRUE, r.fd,
          IF r.err = ErrNil THEN r.fd ELSE held, fs, reg)

\* Lines 270-276 and 293-299: open the pin, keep the descriptor.
OpenAndLoad(path, cs, fs, reg, o) ==
  LET r == GetMapFDByPin(path, fs, o)
  IN Left(r.err, Append(cs, r.call), IF r.err = ErrNil THEN TRUE ELSE fdLoaded, r.fd,
          IF r.err = ErrNil THEN r.fd ELSE held, fs, reg)

\* Line 255 letting every stat error through.
StatFatalNever(err) == FALSE

\* Line 255: a stat error that ends the call.
StatFatal(err) == ~IsNotExist(err)

\* Line 262 letting every resolver failure fall through.
RepinFatalNever(err) == FALSE

\* Line 262: a resolver failure that ends the call.
RepinFatal(err) == err # ErrNil /\ ~IsNotExist(err)

\* Line 268 never taken: the call goes on to the creation.
PinFoundNever(err) == FALSE

\* Line 268: the pin is there, found by the stat or made by the repin.
PinFound(err) == err = ErrNil

\* Line 259, b.context.RepinningEnabled: "panic" on a nil context.
RepinWanted ==
  IF context = "nil" THEN "panic" ELSE IF context = "on" THEN "yes" ELSE "no"

\* err.Error() of the error EnsureExists returns, for the failure of the
\* creation command: line 291 returns the error of CombinedOutput as it
\* is, an *exec.ExitError whose text is "exit status 1" and whose Stderr
\* is empty (the output went to `out`, which line 290 logs). The texts of
\* the other errors are not modelled.
ErrorText(err) == IF err = ErrCreate THEN ErrCreateText ELSE NoStr

\* Lines 279-299: create the map, then open its pin.
CreateAndOpen(path, name, cs, o) ==
  LET c == CreateMap(path, name, o)
  IN IF c.err # ErrNil
     THEN Left(c.err, Append(cs, c.call), fdLoaded, fd, held, c.pins, c.registry)
     ELSE OpenAndLoad(path, Append(cs, c.call), c.pins, c.registry, o)

\* Lines 259-300, after a stat that failed with a not-found error.
RepinOrCreate(path, name, cs, o) ==
  IF RepinWanted = "panic" THEN Left(ErrNilDeref, cs, fdLoaded, fd, held, pins, registry)
  ELSE IF RepinWanted = "yes"
  THEN LET rp == RepinMap(name, path, o)
           cs4 == cs \o rp.calls
       IN IF RepinFatal(rp.err)
          THEN Left(rp.err, cs4, fdLoaded, fd, held, rp.pins, registry)
          ELSE IF PinFound(rp.err)
          THEN OpenAndLoad(path, cs4, rp.pins, registry, o)
          ELSE CreateAndOpen(path, name, cs4, o)
  ELSE CreateAndOpen(path, name, cs, o)

\* Lines 253-300, from the stat on.
StatRepinOpenCreate(path, name, cs, o) ==
  LET statErr == Stat(path, o)
      cs3 == Append(cs, Call("stat", path, NoStr, 0, 0, 0, statErr))
  IN IF statErr # ErrNil /\ StatFatal(statErr)
     THEN Left(statErr, cs3, fdLoaded, fd, held, pins, registry)
     ELSE IF statErr # ErrNil THEN RepinOrCreate(path, name, cs3, o)
     ELSE IF PinFound(statErr) THEN OpenAndLoad(path, cs3, pins, registry, o)
     ELSE CreateAndOpen(path, name, cs3, o)

\* Lines 236-300 without the return of line 244: a failed mount check
\* is logged and the call goes on.
EnsureExistsRunMountUnchecked(o) ==
  LET path == versionedFilename(params)
      name == versionedName(params)
      cMount == Call("mount", NoStr, NoStr, 0, 0, 0, MaybeMountBPFfs(o))
      cMkdir == Call("mkdir", NoStr, NoStr, 0, 0, 0, MkdirAll(o))
  IN IF AlreadyLoaded THEN Left(ErrNil, <<>>, fdLoaded, fd, held, pins, registry)
     ELSE IF MkdirAll(o) # ErrNil
     THEN Left(MkdirAll(o), <<cMount, cMkdir>>, fdLoaded, fd, held, pins, registry)
     ELSE StatRepinOpenCreate(path, name, <<cMount, cMkdir>>, o)

\* EnsureExists, lines 236-300, under the outcomes o.
EnsureExistsRun(o) ==
  LET path == versionedFilename(params)
      name == versionedName(params)
      cMount == Call("mount", NoStr, NoStr, 0, 0, 0, MaybeMountBPFfs(o))
      cMkdir == Call("mkdir", NoStr, NoStr, 0, 0, 0, MkdirAll(o))
  IN IF AlreadyLoaded THEN Left(ErrNil, <<>>, fdLoaded, fd, held, pins, registry)
     ELSE IF MaybeMountBPFfs(o) # ErrNil
     THEN Left(MaybeMountBPFfs(o), <<cMount>>, fdLoaded, fd, held, pins, registry)
     ELSE IF MkdirAll(o) # ErrNil
     THEN Left(MkdirAll(o), <<cMount, cMkdir>>, fdLoaded, fd, held, pins, registry)
     ELSE StatRepinOpenCreate(path, name, <<cMount, cMkdir>>, o)

EnsureExists ==
  /\ constructed = "yes"
  /\ \E o \in Outcomes : \E r \in {EnsureExistsRun(o)} :
          /\ lastRet' = r.ret
          /\ calls' = r.calls
          /\ fdLoaded' = r.fdLoaded
          /\ fd' = r.fd
          /\ held' = r.held
          /\ pins' = r.pins
          /\ registry' = r.registry
          /\ lastVal' = Val("error", ErrorText(r.ret))
  /\ lastOp' = "EnsureExists"
  /\ pre' = Snapshot
  /\ visited' = <<>>
  /\ UNCHANGED handleVars

\* ---------------------------------------------------------------------- Close
\* MapFD.Close: close(2) of descriptor f.  It fails on a descriptor that
\* is not open, and can report an error on one that is.
FdClose(f, fails) ==
  LET isOpen == f \in 0..2 \/ (f # 0 /\ f = held)
      err == IF isOpen /\ ~fails THEN ErrNil ELSE ErrClose
  IN [err |-> err, call |-> Call("close", NoStr, NoStr, 0, f, 0, err)]

\* Line 117 keeping the flag when the descriptor close failed.
CloseFlagKept(err) == IF err = ErrNil THEN FALSE ELSE fdLoaded

\* Line 117: the flag Close leaves.
CloseFlag(err) == FALSE

Close ==
  /\ constructed = "yes"
  /\ \E fails \in BOOLEAN : \E r \in {FdClose(fd, fails)} :
        /\ calls' = <<r.call>>
        /\ lastRet' = r.err
        /\ fdLoaded' = CloseFlag(r.err)
  /\ held' = IF fd = held THEN 0 ELSE held
  /\ fd' = 0
  /\ lastOp' = "Close"
  /\ pre' = Snapshot
  /\ lastVal' = NoVal
  /\ visited' = <<>>
  /\ UNCHANGED <<handleVars, pins, registry>>

\* ------------------------------------------------------------ Get and Update
\* GetMapEntry / UpdateMapEntry: a bpf(2) call on descriptor f; it can only
\* succeed on a descriptor that is open on a map.
KernelCall(op, f, k, found) ==
  LET ok == found /\ f # 0 /\ f = held
  IN [err |-> IF ok THEN ErrNil ELSE ErrSyscall,
      call |-> Call(op, NoStr, NoStr, 0, f, k, IF ok THEN ErrNil ELSE ErrSyscall)]

\* Lines 192 and 200: the per-CPU guard of Update and Get.
PerCPUGuard == perCPU

Update ==
  /\ constructed = "yes"
  /\ \E k \in Bytes, v \in Bytes, done \in BOOLEAN :
       IF PerCPUGuard
       THEN /\ lastRet' = ErrPanic
            /\ calls' = <<>>
       ELSE LET r == KernelCall("bpf_update", fd, k, done)
            IN /\ lastRet' = r.err
               /\ calls' = <<r.call>>
  /\ lastOp' = "Update"
  /\ pre' = Snapshot
  /\ lastVal' = NoVal
  /\ visited' = <<>>
  /\ UNCHANGED <<handleVars, fdLoaded, fd, held, pins, registry>>

Get ==
  /\ constructed = "yes"
  /\ \E k \in Bytes, v \in Bytes, found \in BOOLEAN :
       IF PerCPUGuard
       THEN /\ lastRet' = ErrPanic
            /\ calls' = <<>>
            /\ lastVal' = NoVal
       ELSE LET r == KernelCall("bpf_lookup", fd, k, found)
            IN /\ lastRet' = r.err
               /\ calls' = <<r.call>>
               /\ lastVal' = IF r.err = ErrNil THEN Val("bytes", <<v>>) ELSE NoVal
  /\ lastOp' = "Get"
  /\ pre' = Snapshot
  /\ visited' = <<>>
  /\ UNCHANGED <<handleVars, fdLoaded, fd, held, pins, registry>>

\* --------------------------------------------------------------------- Delete
DeleteNotFoundMsg ==
  <<"d", "e", "l", "e", "t", "e", " ", "f", "a", "i", "l", "e", "d", ":", " ", "N", "o", " ", "s", "u", "c", "h", " ", "f", "i", "l", "e", " ", "o", "r", " ", "d", "i", "r", "e", "c", "t", "o", "r", "y">>

\* What bpftool map delete can end as: ok, an *exec.ExitError with its
\* stderr, or another error (the tool could not be run).
Stderrs ==
  {NoStr, DeleteNotFoundMsg,
   <<"E", "r", "r", "o", "r", ":", " ">> \o DeleteNotFoundMsg \o <<"!">>,
   SubSeq(DeleteNotFoundMsg, 1, Len(DeleteNotFoundMsg) - 1)}

DeleteOutcomes ==
  {[kind |-> "ok", stderr |-> NoStr], [kind |-> "Error", stderr |-> NoStr]}
    \cup [kind : {"ExitError"}, stderr : Stderrs]

\* Lines 223-233 taking every exit failure for "the key was absent".
DeleteRetAnyExit(d) ==
  IF d.kind = "ok" THEN ErrNil
  ELSE IF d.kind = "ExitError" THEN ErrNotExist
  ELSE "bpftool could not run"

\* Lines 223-233: the error Delete returns for outcome d.
DeleteRet(d) ==
  IF d.kind = "ok" THEN ErrNil
  ELSE IF d.kind = "ExitError" /\ Contains(d.stderr, DeleteNotFoundMsg) THEN ErrNotExist
  ELSE IF d.kind = "ExitError" THEN "bpftool exit error"
  ELSE "bpftool could not run"

Delete ==
  /\ constructed = "yes"
  /\ \E k \in Bytes, d \in DeleteOutcomes :
       /\ calls' = <<Call("delete", versionedFilename(params), NoStr, 0, 0, k,
                         IF d.kind = "ok" THEN ErrNil ELSE ErrDelete)>>
       /\ lastRet' = DeleteRet(d)
       /\ lastVal' = Val("delete", d)
  /\ lastOp' = "Delete"
  /\ pre' = Snapshot
  /\ visited' = <<>>
  /\ UNCHANGED <<handleVars, fdLoaded, fd, held, pins, registry>>

\* ----------------------------------------------------------------------- Iter
\* strconv-style value of a string of decimal digits, -1 if it is none.
RECURSIVE Atoi(_)
Atoi(t) ==
  IF Len(t) = 0 THEN -1
  ELSE LET d == {i \in 1..10 : Digits[i] = t[Len(t)]}
       IN IF d = {} THEN -1
          ELSE IF Len(t) = 1 THEN (CHOOSE i \in d : TRUE) - 1
          ELSE LET hi == Atoi(SubSeq(t, 1, Len(t) - 1))
               IN IF hi < 0 THEN -1 ELSE 10 * hi + (CHOOSE i \in d : TRUE) - 1

\* hexStringsToBytes: the bytes of an array of textual byte values, or
\* a failure when one of them is no byte.
hexStringsToBytes(ts) ==
  IF \A i \in 1..Len(ts) : Atoi(ts[i]) \in 0..255
  THEN [ok |-> TRUE, bytes |-> [i \in 1..Len(ts) |-> Atoi(ts[i])]]
  ELSE [ok |-> FALSE, bytes |-> <<>>]

\* Records of a dump: two that decode, one with a bad key, one with a bad value.
EntryA == [key |-> << <<"1">>, <<"2">> >>, value |-> << <<"2", "5", "5">> >>]
EntryB == [key |-> << <<"2">> >>, value |-> << <<"1">> >>]
EntryBadKey == [key |-> << <<"z">> >>, value |-> << <<"1">> >>]
EntryBadValue == [key |-> << <<"1">> >>, value |-> << <<"2", "5", "6">> >>]

DumpDocs ==
  {<<>>, <<EntryA>>, <<EntryA, EntryB>>, <<EntryB, EntryA>>, <<EntryBadKey, EntryA>>,
   <<EntryA, EntryBadValue, EntryB>>, <<EntryB, EntryA, EntryBadKey>>}

\* What the dump command can give: a failure, output that is no JSON
\* array of records, or a document of records.
DumpOutcomes ==
  {[kind |-> "fail", doc |-> <<>>], [kind |-> "malformed", doc |-> <<>>]}
    \cup [kind : {"doc"}, doc : DumpDocs]

\* The loop of lines 154-164 handing the records over last to first.
RECURSIVE IterRecordsReversed(_, _, _)
IterRecordsReversed(mp, i, seen) ==
  IF i > Len(mp) THEN [err |-> ErrNil, at |-> 0, visited |-> seen]
  ELSE LET k == hexStringsToBytes(mp[i].key)
           v == hexStringsToBytes(mp[i].value)
       IN IF ~k.ok THEN [err |-> ErrParseKey, at |-> i, visited |-> seen]
          ELSE IF ~v.ok THEN [err |-> ErrParseVal, at |-> i, visited |-> seen]
          ELSE IterRecordsReversed(mp, i + 1, <<[k |-> k.bytes, v |-> v.bytes]>> \o seen)

\* The loop of lines 154-164 skipping a record that does not decode.
RECURSIVE IterRecordsSkipBad(_, _, _)
IterRecordsSkipBad(mp, i, seen) ==
  IF i > Len(mp) THEN [err |-> ErrNil, at |-> 0, visited |-> seen]
  ELSE LET k == hexStringsToBytes(mp[i].key)
           v == hexStringsToBytes(mp[i].value)
       IN IF ~k.ok \/ ~v.ok THEN IterRecordsSkipBad(mp, i + 1, seen)
          ELSE IterRecordsSkipBad(mp, i + 1, Append(seen, [k |-> k.bytes, v |-> v.bytes]))

\* The loop of IterMapCmdOutput, lines 154-164, from record i on:
\* [err, at, visited], at = the record the error names (0 if none).
RECURSIVE IterRecords(_, _, _)
IterRecords(mp, i, seen) ==
  IF i > Len(mp) THEN [err |-> ErrNil, at |-> 0, visited |-> seen]
  ELSE LET k == hexStringsToBytes(mp[i].key)
           v == hexStringsToBytes(mp[i].value)
       IN IF ~k.ok THEN [err |-> ErrParseKey, at |-> i, visited |-> seen]
          ELSE IF ~v.ok THEN [err |-> ErrParseVal, at |-> i, visited |-> seen]
          ELSE IterRecords(mp, i + 1, Append(seen, [k |-> k.bytes, v |-> v.bytes]))

\* IterMapCmdOutput, lines 147-167.
IterMapCmdOutput(out) ==
  IF out.kind = "malformed"
  THEN [err |-> ErrParseJSON, at |-> 0, visited |-> <<>>]
  ELSE IterRecords(out.doc, 1, <<>>)

Iter ==
  /\ constructed = "yes"
  /\ \E out \in DumpOutcomes :
       /\ calls' = <<Call("dump", versionedFilename(params), NoStr, 0, 0, 0,
                         IF out.kind = "fail" THEN ErrDump ELSE ErrNil)>>
       /\ IF out.kind = "fail"
          THEN /\ lastRet' = ErrDump
               /\ visited' = <<>>
               /\ lastVal' = Val("dump", [kind |-> out.kind, doc |-> out.doc, at |-> 0])
          ELSE \E r \in {IterMapCmdOutput(out)} :
                  /\ lastRet' = r.err
                  /\ visited' = r.visited
                  /\ lastVal' = Val("dump", [kind |-> out.kind, doc |-> out.doc, at |-> r.at])
  /\ lastOp' = "Iter"
  /\ pre' = Snapshot
  /\ UNCHANGED <<handleVars, fdLoaded, fd, held, pins, registry>>

\* ------------------------------------------------------------------ accessors
MapFD ==
  /\ constructed = "yes"
  /\ IF ~fdLoaded
     THEN lastRet' = ErrPanic /\ lastVal' = NoVal
     ELSE lastRet' = ErrNil /\ lastVal' = Val("fd", fd)
  /\ lastOp' = "MapFD"
  /\ calls' = <<>>
  /\ pre' = Snapshot
  /\ visited' = <<>>
  /\ UNCHANGED <<handleVars, fdLoaded, fd, held, pins, registry>>

GetName ==
  /\ constructed = "yes"
  /\ lastVal' = Val("string", versionedName(params))
  /\ lastOp' = "GetName"
  /\ lastRet' = ErrNil
  /\ calls' = <<>>
  /\ pre' = Snapshot
  /\ visited' = <<>>
  /\ UNCHANGED <<handleVars, fdLoaded, fd, held, pins, registry>>

Path ==
  /\ constructed = "yes"
  /\ lastVal' = Val("string", versionedFilename(params))
  /\ lastOp' = "Path"
  /\ lastRet' = ErrNil
  /\ calls' = <<>>
  /\ pre' = Snapshot
  /\ visited' = <<>>
  /\ UNCHANGED <<handleVars, fdLoaded, fd, held, pins, registry>>

RepinningEnabled ==
  /\ constructed = "yes"
  /\ lastVal' = Val("bool", IF context = "nil" THEN FALSE ELSE context = "on")
  /\ lastOp' = "RepinningEnabled"
  /\ lastRet' = ErrNil
  /\ calls' = <<>>
  /\ pre' = Snapshot
  /\ visited' = <<>>
  /\ UNCHANGED <<handleVars, fdLoaded, fd, held, pins, registry>>

\* ------------------------------------------------------------ naming rules
\* Construction over the identities of the naming rules, then the accessors.
NewPinnedMap == NewPinnedMapOf(Identities)

NewVersionedMap == NewPinnedMapOf(VersionedIdentities)

InitVersioned ==
  /\ Init
  /\ context = "off"
  /\ registry = <<>>

NextVersioned ==
  \/ NewVersionedMap
  \/ GetName
  \/ Path

SpecVersioned == InitVersioned /\ [][NextVersioned]_vars

\* ------------------------------------------------- two processes, one identity
\* Two processes each hold a handle of the same identity and call
\* EnsureExists once; every external call of lines 236-300 is a step of
\* its own, so the calls of the two interleave. The pin filesystem and
\* the registry are shared, descriptors are per process.
InitRace ==
  /\ constructed = "yes"
  /\ context \in {"nil", "on", "off"}
  /\ params \in {mp \in Identities : ~NameTooLong(mp)}
  /\ perCPU = IsPerCPU(params.Type)
  /\ fdLoaded = FALSE
  /\ fd = 0
  /\ registry \in InitRegistries
  /\ pins \in [PinPaths -> {0} \cup {registry[i].id : i \in {Len(registry)} \ {0}}]
  /\ \A p, q \in PinPaths : pins[p] # 0 /\ pins[q] # 0 => p = q
  /\ held = 0
  /\ lastOp = "none"
  /\ lastRet = ErrNil
  /\ calls = <<>>
  /\ pre = [fdLoaded |-> FALSE, fd |-> 0, held |-> 0, pins |-> pins,
            nmaps |-> Len(registry), after |-> "other"]
  /\ lastVal = NoVal
  /\ visited = <<>>
  /\ race = RaceIdle

raceFrame == <<constructed, context, params, fdLoaded, fd, perCPU, held, lastOp, lastRet,
               calls, pre, lastVal, visited>>

\* Process p goes on to step pc / returns err from EnsureExists.
Goto(p, pc) == [race EXCEPT !.h[p].pc = pc]
Return(p, err) == [race EXCEPT !.h[p].pc = "done", !.h[p].ret = err]

Running(p) == race.h[p].pc \notin {"idle", "done"}

\* Lines 236-239: the call begins.
RaceBegin(p) ==
  /\ race.h[p].pc = "idle"
  /\ race' = [(IF race.h[p].fdLoaded THEN Return(p, ErrNil) ELSE Goto(p, "mount"))
                EXCEPT !.order = Append(race.order, p),
                       !.overlap = race.overlap \/ \E q \in Procs \ {p} : Running(q)]
  /\ UNCHANGED <<raceFrame, pins, registry>>

\* Lines 241-245.
RaceMount(p) ==
  /\ race.h[p].pc = "mount"
  /\ \E ok \in BOOLEAN : \E err \in {MaybeMountBPFfs([mount |-> ok])} :
       race' = IF err # ErrNil THEN Return(p, err) ELSE Goto(p, "mkdir")
  /\ UNCHANGED <<raceFrame, pins, registry>>

\* Lines 247-251.
RaceMkdir(p) ==
  /\ race.h[p].pc = "mkdir"
  /\ \E ok \in BOOLEAN : \E err \in {MkdirAll([mkdir |-> ok])} :
       race' = IF err # ErrNil THEN Return(p, err) ELSE Goto(p, "stat")
  /\ UNCHANGED <<raceFrame, pins, registry>>

\* Lines 253-268: the stat and the branch taken on its result.
RaceStat(p) ==
  /\ race.h[p].pc = "stat"
  /\ \E st \in {"fs", "EACCES"} : \E err \in {Stat(versionedFilename(params), [stat |-> st])} :
       race' = IF err # ErrNil /\ StatFatal(err) THEN Return(p, err)
               ELSE IF err # ErrNil
               THEN IF RepinWanted = "panic" THEN Return(p, ErrNilDeref)
                    ELSE IF RepinWanted = "yes" THEN Goto(p, "list")
                    ELSE Goto(p, "create")
               ELSE IF PinFound(err) THEN Goto(p, "open")
               ELSE Goto(p, "create")
  /\ UNCHANGED <<raceFrame, pins, registry>>

\* Lines 308-327: the listing and the search for the name in it.
RaceList(p) ==
  /\ race.h[p].pc = "list"
  /\ \E l \in {"ok", "fail", "badjson"} :
       LET listErr == IF l = "fail" THEN ErrList ELSE IF l = "badjson" THEN ErrBadJSON ELSE ErrNil
           i == FirstMatch(registry, versionedName(params))
       IN race' = IF listErr # ErrNil
                  THEN IF RepinFatal(listErr) THEN Return(p, listErr) ELSE Goto(p, "create")
                  ELSE IF i # 0 THEN [Goto(p, "pin") EXCEPT !.h[p].id = registry[i].id]
                  ELSE IF RepinFatal(ErrNotExist) THEN Return(p, ErrNotExist)
                  ELSE Goto(p, "create")
  /\ UNCHANGED <<raceFrame, pins, registry>>

\* Lines 324-325, then 262-268: the pin-by-id and the branch on its result.
RacePin(p) ==
  /\ race.h[p].pc = "pin"
  /\ \E ok \in BOOLEAN :
       \E pn \in {PinById(race.h[p].id, versionedFilename(params), [make |-> ok])} :
         /\ pins' = pn.pins
         /\ race' = IF RepinFatal(pn.err) THEN Return(p, pn.err)
                    ELSE IF PinFound(pn.err) THEN Goto(p, "open")
                    ELSE Goto(p, "create")
  /\ UNCHANGED <<raceFrame, registry>>

\* Lines 279-292: the creation.
RaceCreate(p) ==
  /\ race.h[p].pc = "create"
  /\ \E ok \in BOOLEAN :
       \E c \in {CreateMap(versionedFilename(params), versionedName(params), [make |-> ok])} :
         /\ pins' = c.pins
         /\ registry' = c.registry
         /\ race' = [(IF c.err # ErrNil THEN Return(p, c.err) ELSE Goto(p, "open"))
                       EXCEPT !.h[p].creates = race.h[p].creates + 1,
                              !.h[p].createErr = c.err]
  /\ UNCHANGED raceFrame

\* Lines 270-277 and 293-299: the open of the pin.
RaceOpen(p) ==
  /\ race.h[p].pc = "open"
  /\ \E ok \in BOOLEAN :
       \E r \in {GetMapFDByPin(versionedFilename(params), pins, [open |-> ok, newfd |-> 3])} :
         race' = IF r.err = ErrNil
                 THEN [Return(p, r.err) EXCEPT !.h[p].fdLoaded = TRUE, !.h[p].fd = r.fd,
                                               !.h[p].obj = r.call.id]
                 ELSE Return(p, r.err)
  /\ UNCHANGED <<raceFrame, pins, registry>>

NextRace ==
  \E p \in Procs :
    \/ RaceBegin(p)
    \/ RaceMount(p)
    \/ RaceMkdir(p)
    \/ RaceStat(p)
    \/ RaceList(p)
    \/ RacePin(p)
    \/ RaceCreate(p)
    \/ RaceOpen(p)

SpecRace == InitRace /\ [][NextRace]_vars

\* ---------------------------------------------------------------- environment
\* The pin at a path is removed (the map survives in the kernel).
EnvUnpin ==
  /\ \E p \in PinPaths : pins[p] # 0 /\ pins' = [pins EXCEPT ![p] = 0]
  /\ lastOp' = "EnvUnpin"
  /\ lastRet' = ErrNil
  /\ calls' = <<>>
  /\ pre' = Snapshot
  /\ lastVal' = NoVal
  /\ visited' = <<>>
  /\ UNCHANGED <<handleVars, fdLoaded, fd, held, registry>>

Next ==
  \/ NewPinnedMap
  \/ EnsureExists
  \/ Close
  \/ Update
  \/ Get
  \/ Delete
  \/ Iter
  \/ MapFD
  \/ GetName
  \/ Path
  \/ RepinningEnabled
  \/ EnvUnpin

Spec == Init /\ [][Next]_vars

\* ===================================================================== claims
\* The handle's versioned pin path and kernel-visible name.
HandlePath == versionedFilename(params)
HandleName == versionedName(params)

\* Positions in the last operation's call log of the calls to `op`.
Ops(op) == {i \in 1..Len(calls) : calls[i].op = op}

EntryOps == {"Get", "Update", "Delete", "Iter"}

\* The last operation was an EnsureExists on an unopened handle whose
\* stat reported the pin as not found.
EnsuredPinMissing ==
  /\ lastOp = "EnsureExists"
  /\ ~pre.fdLoaded
  /\ \E i \in Ops("stat") : calls[i].err = ErrStatENOENT

\* The registry entries the listing of the last call showed that carry
\* the handle's versioned name.
Matches == {i \in 1..pre.nmaps : registry[i].name = HandleName}

\* C1: whenever EnsureExists returns success the handle is open and holds
\* the descriptor returned by a successful open of the pin at
\* versionedFilename, made in this call or in an earlier one with no Close
\* since, and a map was pinned there when it was opened.
C1_EnsureSuccessOpens ==
  (lastOp = "EnsureExists" /\ lastRet = ErrNil) =>
    /\ fdLoaded
    /\ held # 0
    /\ fd = held
    /\ IF pre.fdLoaded
       THEN fd = pre.fd /\ calls = <<>>
       ELSE /\ Ops("open") = {Len(calls)}
            /\ calls[Len(calls)].err = ErrNil
            /\ calls[Len(calls)].path = HandlePath
            /\ calls[Len(calls)].fd = fd
            /\ calls[Len(calls)].id # 0

\* A successful EnsureExists that repinned the map and opened the new pin.
C1_Witness ==
  /\ lastOp = "EnsureExists"
  /\ lastRet = ErrNil
  /\ ~pre.fdLoaded
  /\ Ops("pin") # {}
  /\ fdLoaded

\* C2: EnsureExists on an open handle returns success, leaves the flag
\* and the descriptor as they were and issues no call at all.
C2_EnsureIdempotent ==
  (lastOp = "EnsureExists" /\ pre.fdLoaded) =>
    /\ lastRet = ErrNil
    /\ fdLoaded
    /\ fd = pre.fd
    /\ held = pre.held
    /\ calls = <<>>

\* A second EnsureExists, on a handle an earlier one opened.
C2_Witness ==
  /\ lastOp = "EnsureExists"
  /\ pre.fdLoaded
  /\ pre.fd \in FdRange

\* C3 holds when the pin is missing, repinning is enabled and the listing
\* shows a map with the versioned name.
C3_Case ==
  /\ EnsuredPinMissing
  /\ context = "on"
  /\ \E i \in Ops("list") : calls[i].err = ErrNil
  /\ Matches # {}

\* C3 as claimed: in that case EnsureExists pins the first match by id
\* at versionedFilename, then opens that pin, and never calls create,
\* whether the pin or the open succeeds or fails.
C3_Original ==
  C3_Case =>
    /\ Ops("create") = {}
    /\ \E i \in Ops("pin"), j \in Ops("open") :
         /\ i < j
         /\ calls[i].path = HandlePath
         /\ calls[i].id \in {registry[m].id : m \in {n \in Matches : \A k \in Matches : n <= k}}
         /\ calls[j].path = HandlePath

\* C3 as amended: EnsureExists pins the first match by id at
\* versionedFilename and never calls create; it opens that pin next if
\* the pin-by-id succeeded, and if it failed returns that failure with no
\* open and the handle unopened.
C3_RepinFirstMatch ==
  C3_Case =>
    /\ Ops("create") = {}
    /\ \E i \in Ops("pin") :
         /\ Ops("pin") = {i}
         /\ calls[i].path = HandlePath
         /\ calls[i].id \in {registry[m].id : m \in {n \in Matches : \A k \in Matches : n <= k}}
         /\ IF calls[i].err = ErrNil
            THEN /\ Ops("open") = {i + 1}
                 /\ calls[i + 1].path = HandlePath
                 /\ lastRet = calls[i + 1].err
            ELSE /\ Ops("open") = {}
                 /\ lastRet = calls[i].err
                 /\ ~fdLoaded

\* A repin with two maps of the versioned name in the listing, the pin
\* made and opened.
C3_Witness ==
  /\ C3_Case
  /\ Cardinality(Matches) = 2
  /\ \E i \in Ops("pin") : calls[i].err = ErrNil
  /\ Ops("open") # {}
  /\ fdLoaded

\* C4 as claimed: when the pin is missing and repinning is disabled
\* (RepinningEnabled() is false: the context is nil or its flag is off),
\* EnsureExists lists no maps and pins none by id, calls create exactly
\* once with the versioned name and pin path, and if the create and the
\* open succeed the handle is open on the descriptor of the new pin.
C4_Original ==
  (EnsuredPinMissing /\ context # "on") =>
    /\ Ops("list") = {}
    /\ Ops("pin") = {}
    /\ Cardinality(Ops("create")) = 1
    /\ \A i \in Ops("create") :
         /\ calls[i].name = HandleName
         /\ calls[i].path = HandlePath
         /\ calls[i].err = ErrNil =>
              /\ Ops("open") = {i + 1}
              /\ calls[i + 1].path = HandlePath
              /\ calls[i + 1].err = ErrNil =>
                   fdLoaded /\ fd = calls[i + 1].fd /\ fd = held

\* C5: with the pin missing and repinning enabled, a resolver that finds
\* no map of the versioned name leads to one create call; a listing that
\* fails, a listing that is bad JSON or a pin-by-id that fails is
\* returned as it is, with no create, no open and the handle unopened.
C5_ResolverFailureIsFatal ==
  (EnsuredPinMissing /\ context = "on") =>
    /\ \A i \in Ops("list") :
         /\ (calls[i].err = ErrNil /\ Matches = {}) =>
              Cardinality(Ops("create")) = 1 /\ Ops("pin") = {}
         /\ calls[i].err # ErrNil =>
              /\ lastRet = calls[i].err
              /\ Ops("pin") = {}
              /\ Ops("create") = {}
              /\ Ops("open") = {}
              /\ ~fdLoaded
    /\ \A i \in Ops("pin") :
         calls[i].err # ErrNil =>
              /\ lastRet = calls[i].err
              /\ Ops("create") = {}
              /\ Ops("open") = {}
              /\ ~fdLoaded
    /\ Ops("list") # {}

\* An EnsureExists that ended on a failed registry listing.
C5_Witness ==
  /\ EnsuredPinMissing
  /\ context = "on"
  /\ lastRet = ErrList

\* C6: a stat error other than not-found ends EnsureExists at once: the
\* error is returned, the stat is the last call, and the handle stays
\* unopened.
C6_StatErrorAborts ==
  (lastOp = "EnsureExists" /\ \E i \in Ops("stat") : ~IsNotExist(calls[i].err) /\ calls[i].err # ErrNil) =>
    /\ \A i \in Ops("stat") : lastRet = calls[i].err /\ i = Len(calls)
    /\ Ops("list") = {}
    /\ Ops("pin") = {}
    /\ Ops("create") = {}
    /\ Ops("open") = {}
    /\ ~fdLoaded
    /\ pins = pre.pins

\* An EnsureExists whose stat was refused while a map is pinned at the path.
C6_Witness ==
  /\ lastOp = "EnsureExists"
  /\ lastRet = ErrStatEACCES
  /\ pre.pins[HandlePath] # 0

\* C7 as claimed: an entry operation on an unopened handle ends in the
\* fatal usage error and issues no kernel call and no external call.
C7_UnopenedEntryOpsFatal ==
  (lastOp \in EntryOps /\ ~pre.fdLoaded) =>
    /\ lastRet = ErrPanic
    /\ calls = <<>>

\* C8: a handle is created unopened; it becomes opened only by an
\* EnsureExists that returns success; every Close, one whose descriptor
\* close fails included, leaves it unopened with the descriptor zeroed;
\* no other operation changes the open flag.
C8_HandleStateMachine ==
  /\ lastOp = "NewPinnedMap" => ~fdLoaded /\ fd = 0
  /\ (fdLoaded /\ ~pre.fdLoaded) => lastOp = "EnsureExists" /\ lastRet = ErrNil
  /\ (lastOp = "EnsureExists" /\ lastRet = ErrNil) => fdLoaded
  /\ lastOp = "Close" => ~fdLoaded /\ fd = 0
  /\ (lastOp # "Close" /\ ~(lastOp = "EnsureExists" /\ lastRet = ErrNil)) =>
       fdLoaded = pre.fdLoaded

\* A Close of an opened handle whose descriptor close reported an error.
C8_Witness ==
  /\ lastOp = "Close"
  /\ lastRet # ErrNil
  /\ pre.fdLoaded
  /\ ~fdLoaded

\* C9 as claimed: Close closes no descriptor but the one the handle got
\* from a successful open-by-pin and still holds, and leaves the handle
\* unopened.
C9_CloseReleasesOnlyOwned ==
  lastOp = "Close" =>
    /\ ~fdLoaded
    /\ \A i \in Ops("close") : pre.held # 0 /\ calls[i].fd = pre.held

\* C10: on a handle built with a type containing "percpu", every Get and
\* every Update ends in the fatal usage error, opened or not, and no
\* kernel call is issued.
C10_PerCPUGetUpdateFatal ==
  (lastOp \in {"Get", "Update"} /\ Contains(params.Type, TypePercpu)) =>
    /\ lastRet = ErrPanic
    /\ calls = <<>>
    /\ lastVal = NoVal

\* A Get on an opened per-CPU handle.
C10_Witness ==
  /\ lastOp = "Get"
  /\ Contains(params.Type, TypePercpu)
  /\ pre.fdLoaded
  /\ lastRet = ErrPanic

\* C11: Delete returns success when the external delete succeeds, the
\* not-found outcome exactly when it fails as a process exit failure
\* whose stderr contains "delete failed: No such file or directory", and
\* another error for every other failure; never success on a failure.
C11_DeleteOutcomes ==
  lastOp = "Delete" =>
    /\ lastVal.val.kind = "ok" => lastRet = ErrNil
    /\ lastVal.val.kind # "ok" => lastRet # ErrNil
    /\ lastRet = ErrNotExist <=>
         /\ lastVal.val.kind = "ExitError"
         /\ Contains(lastVal.val.stderr, DeleteNotFoundMsg)
    /\ \A i \in Ops("delete") :
         (calls[i].err = ErrNil) <=> (lastVal.val.kind = "ok")

\* A Delete whose tool exited with the message inside a longer stderr.
C11_Witness ==
  /\ lastOp = "Delete"
  /\ lastRet = ErrNotExist
  /\ Len(lastVal.val.stderr) > Len(DeleteNotFoundMsg)

\* The records of the last dump that decode, and its decoded records.
Decodes(e) == hexStringsToBytes(e.key).ok /\ hexStringsToBytes(e.value).ok
Decoded(e) == [k |-> hexStringsToBytes(e.key).bytes, v |-> hexStringsToBytes(e.value).bytes]

\* C12: for a dump of n records that all decode, Iter returns success
\* and calls the visitor n times, the i-th time with the decoded key and
\* value of the i-th record.
C12_IterVisitsInOrder ==
  (lastOp = "Iter" /\ lastVal.val.kind = "doc"
     /\ \A i \in 1..Len(lastVal.val.doc) : Decodes(lastVal.val.doc[i])) =>
    /\ lastRet = ErrNil
    /\ Len(visited) = Len(lastVal.val.doc)
    /\ \A i \in 1..Len(visited) : visited[i] = Decoded(lastVal.val.doc[i])

\* An Iter over two different records, the first the record
\* {"key":["1","2"],"value":["255"]}.
C12_Witness ==
  /\ lastOp = "Iter"
  /\ lastRet = ErrNil
  /\ Len(visited) = 2
  /\ visited[1] = [k |-> <<1, 2>>, v |-> <<255>>]
  /\ visited[2] # visited[1]

\* C13: a failing Iter stops the iteration: on a failed dump command or
\* a malformed document the visitor is never called; on a record that
\* does not decode Iter returns an error naming that record, having
\* called the visitor for the records before it, in order, and no other.
C13_IterAborts ==
  lastOp = "Iter" =>
    /\ lastVal.val.kind \in {"fail", "malformed"} => visited = <<>> /\ lastRet # ErrNil
    /\ lastVal.val.kind = "fail" => lastRet = ErrDump
    /\ lastVal.val.kind = "malformed" => lastRet = ErrParseJSON
    /\ \A j \in 1..Len(lastVal.val.doc) :
         (lastVal.val.kind = "doc" /\ ~Decodes(lastVal.val.doc[j])
            /\ \A i \in 1..(j - 1) : Decodes(lastVal.val.doc[i])) =>
           /\ lastRet \in {ErrParseKey, ErrParseVal}
           /\ lastVal.val.at = j
           /\ Len(visited) = j - 1
           /\ \A i \in 1..(j - 1) : visited[i] = Decoded(lastVal.val.doc[i])

\* An Iter stopped at the second of three records.
C13_Witness ==
  /\ lastOp = "Iter"
  /\ lastRet = ErrParseVal
  /\ lastVal.val.at = 2
  /\ Len(lastVal.val.doc) = 3
  /\ Len(visited) = 1


\* The text after the first n characters of s.
Suffix(s, n) == SubSeq(s, n + 1, Len(s))

\* s is str, unchanged for a version up to 1 and followed by the decimal
\* digits of the version above it.
Versioned(s, str, ver) ==
  IF ver <= 1 THEN s = str
  ELSE /\ Len(s) > Len(str)
       /\ SubSeq(s, 1, Len(str)) = str
       /\ Atoi(Suffix(s, Len(str))) = ver
       /\ Suffix(s, Len(str))[1] # "0"
       /\ s = str \o Itoa(ver)

\* C14: GetName() is the name and Path() the filename, unchanged for a
\* version up to 1 (0 and negative ones too) and followed by the decimal
\* string of the version above 1; so two versions from 2 up never give
\* the same name or path, and versions 0 and 1 give the same ones.
C14_VersionedNames ==
  /\ lastOp = "GetName" =>
       /\ Versioned(lastVal.val, params.Name, params.Version)
       /\ \A v \in Versions :
            (v >= 2 /\ params.Version >= 2 /\ v # params.Version) =>
              versionedStr(v, params.Name) # lastVal.val
       /\ params.Version \in {0, 1} =>
            versionedStr(1 - params.Version, params.Name) = lastVal.val
  /\ lastOp = "Path" =>
       /\ Versioned(lastVal.val, params.Filename, params.Version)
       /\ \A v \in Versions :
            (v >= 2 /\ params.Version >= 2 /\ v # params.Version) =>
              versionedStr(v, params.Filename) # lastVal.val
       /\ params.Version \in {0, 1} =>
            versionedStr(1 - params.Version, params.Filename) = lastVal.val

\* GetName() of a handle of a two-digit version whose name ends in a digit.
C14_Witness ==
  /\ lastOp = "GetName"
  /\ params.Version >= 10
  /\ params.Name = NameA1
  /\ Len(lastVal.val) = 4

\* The length of the decimal string of a version above 1.
RECURSIVE DecimalLen(_)
DecimalLen(v) == IF v < 10 THEN 1 ELSE 1 + DecimalLen(v \div 10)

\* The length of the name the kernel would see for mp.
KernelNameLen(mp) ==
  Len(mp.Name) + (IF mp.Version > 1 THEN DecimalLen(mp.Version) ELSE 0)

\* C15: construction panics, with no kernel or tool call, exactly when
\* the versioned name has BPF_OBJ_NAME_LEN (16) characters or more; so
\* the name of every handle, every name passed to the creation call and
\* every name searched in the registry has at most 15 characters.
C15_NameFitsOrPanics ==
  /\ lastOp = "NewPinnedMap" =>
       /\ calls = <<>>
       /\ (lastRet = ErrPanic) <=> (KernelNameLen(lastVal.val) >= 16)
       /\ (constructed = "panic") <=> (lastRet = ErrPanic)
       /\ (constructed = "yes") <=> (lastRet = ErrNil)
  /\ constructed = "yes" => KernelNameLen(params) <= 15 /\ Len(HandleName) <= 15
  /\ constructed # "yes" => lastOp \in {"none", "NewPinnedMap", "EnvUnpin"}
  /\ \A i \in 1..Len(calls) :
       calls[i].op \in {"create", "list"} =>
         Len(calls[i].name) <= 15 /\ calls[i].name = HandleName

\* A construction that panicked on a raw name of 15 characters.
C15_Witness ==
  /\ lastOp = "NewPinnedMap"
  /\ lastRet = ErrPanic
  /\ Len(lastVal.val.Name) = 15


\* C16: when the creation command fails, the error EnsureExists returns
\* carries the output captured from the tool and the pin path of the map.
C16_CreateFailureCarriesOutput ==
  lastOp = "EnsureExists" =>
    \A i \in Ops("create") :
      calls[i].err # ErrNil =>
        /\ lastRet # ErrNil
        /\ calls[i].out # NoStr
        /\ Contains(lastVal.val, calls[i].out)
        /\ Contains(lastVal.val, calls[i].path)


\* The place of each step in the order of EnsureExists.
StepOrder == <<"mount", "mkdir", "stat", "list", "pin", "create", "open">>
Rank(op) == CHOOSE n \in 1..Len(StepOrder) : StepOrder[n] = op

\* C17: EnsureExists on an unopened handle issues its calls in the order
\* mount check, directory creation, stat, registry search, pin-by-id,
\* creation, open-by-pin, each at most once; a failed mount check or
\* directory creation is returned with no later call and the handle
\* stays unopened.
C17_EnsureStepOrder ==
  (lastOp = "EnsureExists" /\ ~pre.fdLoaded) =>
    /\ \A i \in 1..Len(calls) : \E n \in 1..Len(StepOrder) : StepOrder[n] = calls[i].op
    /\ \A i, j \in 1..Len(calls) : i < j => Rank(calls[i].op) < Rank(calls[j].op)
    /\ Len(calls) >= 1 /\ calls[1].op = "mount"
    /\ calls[1].err # ErrNil =>
         /\ Len(calls) = 1
         /\ lastRet = calls[1].err
         /\ ~fdLoaded /\ pins = pre.pins /\ Len(registry) = pre.nmaps
    /\ calls[1].err = ErrNil => Len(calls) >= 2 /\ calls[2].op = "mkdir"
    /\ (Len(calls) >= 2 /\ calls[2].err # ErrNil) =>
         /\ Len(calls) = 2
         /\ lastRet = calls[2].err
         /\ ~fdLoaded /\ pins = pre.pins /\ Len(registry) = pre.nmaps
    /\ (Len(calls) >= 2 /\ calls[2].err = ErrNil) => Len(calls) >= 3 /\ calls[3].op = "stat"
    /\ \A i \in Ops("pin") : i > 1 /\ calls[i - 1].op = "list"

\* A call stopped at the directory creation, after its mount check.
C17_Witness ==
  /\ lastOp = "EnsureExists"
  /\ ~pre.fdLoaded
  /\ Len(calls) = 2
  /\ calls[1].err = ErrNil
  /\ calls[2].err # ErrNil
  /\ lastRet = calls[2].err


\* C19: a handle built on a nil context behaves as one with repinning
\* disabled: RepinningEnabled() is false, and EnsureExists with the pin
\* missing goes on to the creation with no registry search and does not
\* panic.
C19_NilContextDisablesRepin ==
  context = "nil" =>
    /\ lastOp = "RepinningEnabled" => lastVal.val = FALSE
    /\ EnsuredPinMissing =>
         /\ lastRet # ErrNilDeref
         /\ Ops("list") = {}
         /\ Ops("create") # {}

\* The last operation was an EnsureExists that follows an EnsureExists
\* which made the pin and failed to open it, or a Close of an open
\* handle, and found the pin still there.
RetriedOnPin ==
  /\ lastOp = "EnsureExists"
  /\ pre.after \in {"unopened pin", "closed"}
  /\ pre.pins[HandlePath] # 0

\* The mount check, the directory creation and the stat of the last
\* call all succeeded.
ReachedThePin ==
  /\ Len(calls) >= 3
  /\ \A i \in 1..3 : calls[i].err = ErrNil

\* C20 as claimed: a failed EnsureExists leaves the handle unopened, and
\* the EnsureExists that follows a failed open of a made pin, or a Close,
\* opens the existing pin, creates nothing and searches nothing.
C20_Original ==
  /\ (lastOp = "EnsureExists" /\ lastRet # ErrNil) => ~fdLoaded
  /\ RetriedOnPin =>
       /\ \E i \in Ops("open") : calls[i].path = HandlePath
       /\ Ops("create") = {}
       /\ Ops("list") = {}

\* C20: a failed EnsureExists leaves the handle unopened; an
\* EnsureExists on an unopened handle whose pin exists issues no
\* creation, no registry search and no pin-by-id, and once its mount
\* check, directory creation and stat have succeeded it opens that pin:
\* its result is the result of that open, and on success the handle
\* holds the descriptor of the map that was pinned there.
C20_RetryOpensExistingPin ==
  /\ (lastOp = "EnsureExists" /\ lastRet # ErrNil) => ~fdLoaded
  /\ (lastOp = "EnsureExists" /\ ~pre.fdLoaded /\ pre.pins[HandlePath] # 0) =>
       /\ Ops("create") = {}
       /\ Ops("list") = {}
       /\ Ops("pin") = {}
       /\ pins = pre.pins
       /\ Len(registry) = pre.nmaps
       /\ ReachedThePin =>
            /\ Len(calls) = 4
            /\ calls[4].op = "open"
            /\ calls[4].path = HandlePath
            /\ lastRet = calls[4].err
            /\ lastRet = ErrNil => fdLoaded /\ fd = calls[4].fd /\ calls[4].id = pre.pins[HandlePath]
       /\ ~ReachedThePin => Ops("open") = {} /\ lastRet # ErrNil

\* A retry after a creation whose open failed: it opened the pin that
\* was left, with no second creation.
C20_Witness ==
  /\ RetriedOnPin
  /\ pre.after = "unopened pin"
  /\ lastRet = ErrNil
  /\ fdLoaded
  /\ Ops("create") = {}


\* The two calls are over; they did not overlap; the one that began
\* first and the one that began second.
BothDone == \A p \in Procs : race.h[p].pc = "done"
Serialized == BothDone /\ ~race.overlap
First == race.h[race.order[1]]
Second == race.h[race.order[2]]
TotalCreates == race.h[1].creates + race.h[2].creates
CreatesThatWorked == {p \in Procs : race.h[p].createErr = ErrNil}
CreatesThatFailed == {p \in Procs : race.h[p].createErr \notin {ErrNil, "none"}}

\* The first half of C18: when both calls issued a creation, two maps
\* were created or one of the creations failed.
BothCreatedOrOneFailed ==
  (BothDone /\ \A p \in Procs : race.h[p].creates > 0) =>
    \/ Cardinality(CreatesThatWorked) = 2
    \/ CreatesThatFailed # {}

C18_SerializedWitness ==
  /\ Serialized
  /\ First.ret = ErrNil /\ Second.ret = ErrNil
  /\ First.creates = 1
  /\ First.obj = Second.obj


====
